---------------------------- MODULE Spec2Model ----------------------------
(***************************************************************************)
(* Model of src/app.py: the text-to-frequency pipeline of the URL text     *)
(* analysis tool (preprocess_text, segment_and_count, the top-N query,     *)
(* create_chart, render_pyechart) and the submit handler of main.          *)
(*                                                                         *)
(* Characters are Unicode code points, strings are sequences of code       *)
(* points, so the character classes of the regular expressions are the     *)
(* ranges the source writes.                                               *)
(***************************************************************************)
EXTENDS Integers, Sequences, FiniteSets

VARIABLES
    pc,              \* position of the run
    url,             \* main: the text input
    chart_type,      \* the chart kind handed to create_chart / chosen in the sidebar
    text,            \* raw text (argument of preprocess_text)
    processed_text,  \* result of preprocess_text
    renormalized,    \* result of preprocess_text applied to processed_text
    stopwords,       \* the stopword set handed to segment_and_count
    tokens,          \* what jieba.cut yielded
    words,           \* the list segment_and_count counts
    word_counts,     \* the Counter, as its items() in insertion order
    top_n,           \* argument of the last most_common query
    top_words,       \* result of the last most_common query
    chart,           \* result of create_chart
    rendered,        \* what has been embedded into the page by the run
    page,            \* st.write / st.warning lines of the run
    stopfile,        \* stopwords.txt: whether it exists, and its lines
    cloud_file,      \* ./temp/wordcloud.html: the (word, count) pairs rendered into it
    runs,            \* script runs started so far
    calls            \* main: the functions the run has called, in order

vars == << pc, url, chart_type, text, processed_text, renormalized, stopwords,
           tokens, words, word_counts, top_n, top_words, chart, rendered, page,
           stopfile, cloud_file, runs, calls >>

---------------------------------------------------------------------------
(* Bounds *)

\* longest raw string handed to preprocess_text
MaxLen == 5
\* longest normalized text handed to segment_and_count (besides the scenario)
MaxTextLen == 4
\* largest small n of the top-N query (20, the program's n, is always tried)
MaxN == 3
\* script runs of main
MaxRuns == 2

---------------------------------------------------------------------------
(* Characters and strings *)

\* newline, space, '1', '<', '>', 'a', U+4E2D
Alphabet == {10, 32, 49, 60, 62, 97, 20013}

Strings(A, n) == UNION { [1..k -> A] : k \in 0..n }

Range(s) == { s[i] : i \in 1..Len(s) }

\* [\u4e00-\u9fff]
IsCJK(c) == c >= 19968 /\ c <= 40959

\* [A-Za-z]
IsAsciiLetter(c) == (c >= 65 /\ c <= 90) \/ (c >= 97 /\ c <= 122)

\* the complement of the class [^\u4e00-\u9fffA-Za-z]
IsKept(c) == IsCJK(c) \/ IsAsciiLetter(c)

\* \s and str.strip(): whitespace (the ASCII part of it)
IsSpace(c) == c \in {9, 10, 11, 12, 13, 28, 29, 30, 31, 32}

\* '.' of a pattern compiled without re.DOTALL: anything but a newline
DotMatches(c) == c # 10

\* mutant: '.' as under re.DOTALL
DotMatchesAll(c) == TRUE

---------------------------------------------------------------------------
(* preprocess_text *)

\* Where the match of <.*?> that starts at s[1] ends, 0 when there is none:
\* the first '>' after s[1], reachable through characters '.' matches.
TagEnd(s) ==
    IF s = << >> \/ s[1] # 60 THEN 0
    ELSE LET ends == { j \in 2..Len(s) :
                         /\ s[j] = 62
                         /\ \A m \in 2..(j - 1) : s[m] # 62 /\ DotMatches(s[m]) }
         IN  IF ends = {} THEN 0 ELSE CHOOSE j \in ends : TRUE

\* re.sub(r'<.*?>', '', text): leftmost non-overlapping matches removed
RECURSIVE StripTags(_)
StripTags(s) ==
    IF s = << >> THEN << >>
    ELSE IF TagEnd(s) > 0 THEN StripTags(SubSeq(s, TagEnd(s) + 1, Len(s)))
    ELSE << Head(s) >> \o StripTags(Tail(s))

\* re.sub(r'[^\u4e00-\u9fffA-Za-z]', ' ', text)
KeepLetters(s) == [i \in 1..Len(s) |-> IF IsKept(s[i]) THEN s[i] ELSE 32]

\* mutant: every whitespace character replaced by a space, runs not collapsed
CollapseSpacesEach(s) == [i \in 1..Len(s) |-> IF IsSpace(s[i]) THEN 32 ELSE s[i]]

\* re.sub(r'\s+', ' ', text): each maximal run of whitespace becomes one space
RECURSIVE CollapseSpaces(_)
CollapseSpaces(s) ==
    IF s = << >> THEN << >>
    ELSE IF IsSpace(s[1])
         THEN IF Len(s) > 1 /\ IsSpace(s[2]) THEN CollapseSpaces(Tail(s))
              ELSE << 32 >> \o CollapseSpaces(Tail(s))
         ELSE << s[1] >> \o CollapseSpaces(Tail(s))

\* str.strip(): leading and trailing whitespace removed
RECURSIVE Strip(_)
Strip(s) ==
    IF s = << >> THEN << >>
    ELSE IF IsSpace(s[1]) THEN Strip(Tail(s))
    ELSE IF IsSpace(s[Len(s)]) THEN Strip(SubSeq(s, 1, Len(s) - 1))
    ELSE s

\* mutant: whitespace collapsed before the character filter
preprocess_text_reordered(s) == KeepLetters(Strip(CollapseSpaces(StripTags(s))))

preprocess_text(s) == Strip(CollapseSpaces(KeepLetters(StripTags(s))))

---------------------------------------------------------------------------
(* jieba.cut, as segment_and_count uses it on normalized text *)

\* length of the run of ASCII letters s starts with
RECURSIVE LatinRun(_)
LatinRun(s) ==
    IF s # << >> /\ IsAsciiLetter(s[1]) THEN 1 + LatinRun(Tail(s)) ELSE 0

\* length of the run of ideographs s starts with
RECURSIVE CJKRun(_)
CJKRun(s) ==
    IF s # << >> /\ IsCJK(s[1]) THEN 1 + CJKRun(Tail(s)) ELSE 0

\* The token sequences jieba.cut may yield for s. The tokens concatenate to s;
\* a whitespace character is a token of its own, a run of ASCII letters is one
\* token, and a run of ideographs is cut into words by the dictionary, which
\* the model leaves open: every way of cutting the run is possible.
RECURSIVE Cuts(_)
Cuts(s) ==
    IF s = << >> THEN { << >> }
    ELSE IF IsAsciiLetter(s[1])
         THEN { << SubSeq(s, 1, LatinRun(s)) >> \o r :
                    r \in Cuts(SubSeq(s, LatinRun(s) + 1, Len(s))) }
    ELSE IF IsCJK(s[1])
         THEN UNION { { << SubSeq(s, 1, m) >> \o r :
                          r \in Cuts(SubSeq(s, m + 1, Len(s))) } : m \in 1..CJKRun(s) }
    ELSE { << << s[1] >> >> \o r : r \in Cuts(Tail(s)) }

---------------------------------------------------------------------------
(* segment_and_count *)

\* str.lower() on the ASCII letters
Lower(w) == [i \in 1..Len(w) |-> IF w[i] >= 65 /\ w[i] <= 90 THEN w[i] + 32 ELSE w[i]]

\* mutant: stopwords matched without regard to case
FilterWordsIgnoringCase(toks, sw) ==
    SelectSeq(toks, LAMBDA w : Strip(w) # << >> /\ Lower(w) \notin { Lower(x) : x \in sw })

\* [word for word in jieba.cut(text) if word.strip() and word not in stopwords]
FilterWords(toks, sw) ==
    SelectSeq(toks, LAMBDA w : Strip(w) # << >> /\ w \notin sw)

\* mutant: a repeated word has its count set to 1 again instead of raised
IncrementOverwriting(items, w) ==
    IF \E i \in 1..Len(items) : items[i][1] = w
    THEN [i \in 1..Len(items) |-> IF items[i][1] = w THEN << w, 1 >> ELSE items[i]]
    ELSE Append(items, << w, 1 >>)

\* Counter.update: self[elem] = self.get(elem, 0) + 1; a new key goes last
Increment(items, w) ==
    IF \E i \in 1..Len(items) : items[i][1] = w
    THEN [i \in 1..Len(items) |->
            IF items[i][1] = w THEN << w, items[i][2] + 1 >> ELSE items[i]]
    ELSE Append(items, << w, 1 >>)

RECURSIVE CountInto(_, _)
CountInto(items, ws) ==
    IF ws = << >> THEN items ELSE CountInto(Increment(items, Head(ws)), Tail(ws))

\* Counter(words), as its items() in insertion order
Counter(ws) == CountInto(<< >>, ws)

---------------------------------------------------------------------------
(* Counter.most_common(n) = heapq.nlargest(n, items, key = count) *)

\* max(it, key = count): the first of the largest
FirstMaxIndex(items) ==
    CHOOSE i \in 1..Len(items) :
        \A j \in 1..Len(items) :
            /\ items[j][2] <= items[i][2]
            /\ (j < i => items[j][2] < items[i][2])

\* sorted(items, key = count, reverse = True) is stable: equal counts keep
\* their order. Built by inserting each item after those not smaller.
InsertDesc(s, e) ==
    LET k == Cardinality({ i \in 1..Len(s) : s[i][2] >= e[2] })
    IN  SubSeq(s, 1, k) \o << e >> \o SubSeq(s, k + 1, Len(s))

RECURSIVE SortedDesc(_)
SortedDesc(items) ==
    IF items = << >> THEN << >>
    ELSE InsertDesc(SortedDesc(SubSeq(items, 1, Len(items) - 1)), items[Len(items)])

\* s[:n]
SliceTo(s, n) ==
    IF n >= Len(s) THEN s
    ELSE IF n >= 0 THEN SubSeq(s, 1, n)
    ELSE SubSeq(s, 1, IF Len(s) + n > 0 THEN Len(s) + n ELSE 0)

Remove(s, i) == SubSeq(s, 1, i - 1) \o SubSeq(s, i + 1, Len(s))

\* the n < len branch of nlargest: the n largest by (count, earlier first),
\* largest first; nothing for n <= 0
RECURSIVE HeapLargest(_, _)
HeapLargest(items, n) ==
    IF n <= 0 \/ items = << >> THEN << >>
    ELSE << items[FirstMaxIndex(items)] >>
             \o HeapLargest(Remove(items, FirstMaxIndex(items)), n - 1)

Reverse(s) == [i \in 1..Len(s) |-> s[Len(s) + 1 - i]]

\* mutant: the table sorted ascending and reversed, so that equal counts come
\* out last-seen first
most_common_unstable(items, n) ==
    IF n <= 0 THEN << >> ELSE SliceTo(SortedDesc(Reverse(items)), n)

most_common(items, n) ==
    IF n = 1 THEN (IF items = << >> THEN << >> ELSE << items[FirstMaxIndex(items)] >>)
    ELSE IF n >= Len(items) THEN SliceTo(SortedDesc(items), n)
    ELSE HeapLargest(items, n)

---------------------------------------------------------------------------
(* create_chart and render_pyechart *)

\* The chart kinds, by the line of src/app.py that names them: vertical bar
\* (53), horizontal bar (66), pie (80), line (105), scatter (112), radar (119),
\* area (128); "cloud" is the first option of the select box (155), which
\* create_chart has no branch for, and "unknown" is any other string.
HandledKinds ==
    { "bar_vertical", "bar_horizontal", "pie", "line", "scatter", "radar", "area" }

Kinds == HandledKinds \cup { "cloud", "unknown" }

\* the options of the select box
SelectOptions == HandledKinds \cup { "cloud" }

\* the program's n: create_chart's default top_n and main's most_common(20)
DefaultTopN == 20

\* None
None == [cls |-> "None"]

\* an exception leaving the function
Raised(exc) == [cls |-> "Raised", exc |-> exc]

\* words, counts = zip(*top_words) if top_words else ([], [])
UnzipWords(top) == [i \in 1..Len(top) |-> top[i][1]]

UnzipCounts(top) == [i \in 1..Len(top) |-> top[i][2]]

\* zip(words, counts)
Zip(ws, cs) ==
    [i \in 1..(IF Len(ws) < Len(cs) THEN Len(ws) ELSE Len(cs)) |-> << ws[i], cs[i] >>]

\* max(counts), for counts that are not empty (of nothing it raises ValueError)
MaxOf(cs) == CHOOSE m \in Range(cs) : \A c \in Range(cs) : c <= m

\* mutant: max(counts) computed once, before the comprehension
RadarRaisesHoisted(ws, cs) == cs = << >>

\* the comprehension evaluates max(counts) once per word: it raises when
\* there is a word and counts is empty
RadarRaises(ws, cs) == ws # << >> /\ cs = << >>

\* [opts.RadarIndicatorItem(name=word, max_=max(counts)) for word in words]
RadarSchema(ws, cs) == [i \in 1..Len(ws) |-> [name |-> ws[i], max_ |-> MaxOf(cs)]]

\* mutant: the values in reverse order, no longer aligned with the labels
SeriesValuesReversed(cs) == Reverse(cs)

\* list(counts), the values every axis chart is fed
SeriesValues(cs) == cs

\* Bar / Line / Scatter with add_xaxis(list(words)), add_yaxis(.., list(counts))
AxisChart(cls, ws, cs, reversal, area) ==
    [cls |-> cls, xaxis |-> ws, yaxis |-> SeriesValues(cs),
     reversal_axis |-> reversal, areastyle |-> area]

\* mutant: an unknown kind raises instead of returning None
UnhandledKindRaises == Raised("ValueError")

\* the else branch: return None
UnhandledKind == None

create_chart(kind, counter, n) ==
    LET top == most_common(counter, n)
        ws  == UnzipWords(top)
        cs  == UnzipCounts(top)
    IN  CASE kind = "bar_vertical"   -> AxisChart("Bar", ws, cs, FALSE, FALSE)
          [] kind = "bar_horizontal" -> AxisChart("Bar", ws, cs, TRUE, FALSE)
          [] kind = "pie"            -> [cls |-> "Pie", data |-> Zip(ws, cs)]
          [] kind = "line"           -> AxisChart("Line", ws, cs, FALSE, FALSE)
          [] kind = "scatter"        -> AxisChart("Scatter", ws, cs, FALSE, FALSE)
          [] kind = "radar"          ->
                IF RadarRaises(ws, cs) THEN Raised("ValueError")
                ELSE [cls |-> "Radar", schema |-> RadarSchema(ws, cs), data |-> << cs >>]
          [] kind = "area"           -> AxisChart("Line", ws, cs, FALSE, TRUE)
          [] OTHER                   -> UnhandledKind

\* if chart: components.html(chart.render_embed(), ...) -- what gets embedded
render_pyechart(c) == IF c # None THEN << c >> ELSE << >>

---------------------------------------------------------------------------
(* Inputs *)

\* "the cat sat on the mat the cat ran"
ScenarioText ==
    << 116, 104, 101, 32, 99, 97, 116, 32, 115, 97, 116, 32, 111, 110, 32,
       116, 104, 101, 32, 109, 97, 116, 32, 116, 104, 101, 32, 99, 97, 116,
       32, 114, 97, 110 >>

W_the == << 116, 104, 101 >>
W_on  == << 111, 110 >>
W_cat == << 99, 97, 116 >>
W_sat == << 115, 97, 116 >>
W_mat == << 109, 97, 116 >>
W_ran == << 114, 97, 110 >>

\* space, 'A', 'a', U+4E2D
TextAlphabet == {32, 65, 97, 20013}

\* the texts segment_and_count is tried on: what preprocess_text makes of the
\* short strings, and of the scenario
NormalizedInputs ==
    { preprocess_text(r) : r \in Strings(TextAlphabet, MaxTextLen) }
        \cup { preprocess_text(ScenarioText) }

StopwordSets ==
    (SUBSET { << 97 >>, << 20013 >> }) \cup { { W_the, W_on } }

\* the n of the top-N query
NRange == (-1..MaxN) \cup { DefaultTopN }

---------------------------------------------------------------------------
(* SpecNorm: preprocess_text on every short raw string *)

InitNorm ==
    /\ pc = "raw"
    /\ text \in Strings(Alphabet, MaxLen)
    /\ url = ""
    /\ chart_type = "cloud"
    /\ processed_text = << >>
    /\ renormalized = << >>
    /\ stopwords = {}
    /\ tokens = << >>
    /\ words = << >>
    /\ word_counts = << >>
    /\ top_n = DefaultTopN
    /\ top_words = << >>
    /\ chart = None
    /\ rendered = << >>
    /\ page = << >>
    /\ stopfile = [exists |-> FALSE, lines |-> << >>]
    /\ cloud_file = << >>
    /\ runs = 0
    /\ calls = << >>

\* processed_text = preprocess_text(text)
Normalize ==
    /\ pc = "raw"
    /\ processed_text' = preprocess_text(text)
    /\ pc' = "normalized"
    /\ UNCHANGED << url, chart_type, text, renormalized, stopwords, tokens, words,
                    word_counts, top_n, top_words, chart, rendered, page,
                    stopfile, cloud_file, runs, calls >>

\* preprocess_text applied to its own output
Renormalize ==
    /\ pc = "normalized"
    /\ renormalized' = preprocess_text(processed_text)
    /\ pc' = "renormalized"
    /\ UNCHANGED << url, chart_type, text, processed_text, stopwords, tokens, words,
                    word_counts, top_n, top_words, chart, rendered, page,
                    stopfile, cloud_file, runs, calls >>

NextNorm == Normalize \/ Renormalize

SpecNorm == InitNorm /\ [][NextNorm]_vars

---------------------------------------------------------------------------
(* SpecCount: segment_and_count, the top-N query, create_chart and          *)
(* render_pyechart, composed as main composes them, on every short          *)
(* normalized text, stopword set, n and chart kind                          *)

InitCount ==
    /\ pc = "text"
    /\ processed_text \in NormalizedInputs
    /\ stopwords \in StopwordSets
    /\ url = ""
    /\ chart_type = "cloud"
    /\ text = << >>
    /\ renormalized = << >>
    /\ tokens = << >>
    /\ words = << >>
    /\ word_counts = << >>
    /\ top_n = DefaultTopN
    /\ top_words = << >>
    /\ chart = None
    /\ rendered = << >>
    /\ page = << >>
    /\ stopfile = [exists |-> FALSE, lines |-> << >>]
    /\ cloud_file = << >>
    /\ runs = 0
    /\ calls = << >>

\* word_counts = segment_and_count(processed_text, stopwords)
SegmentAndCountCall ==
    /\ pc = "text"
    /\ \E toks \in Cuts(processed_text) :
          /\ tokens' = toks
          /\ words' = FilterWords(toks, stopwords)
          /\ word_counts' = Counter(FilterWords(toks, stopwords))
    /\ pc' = "counted"
    /\ UNCHANGED << url, chart_type, text, processed_text, renormalized, stopwords,
                    top_n, top_words, chart, rendered, page, stopfile,
                    cloud_file, runs, calls >>

\* top_words = word_counts.most_common(n)
MostCommonCall ==
    /\ pc = "counted"
    /\ \E n \in NRange :
          /\ top_n' = n
          /\ top_words' = most_common(word_counts, n)
    /\ pc' = "ranked"
    /\ UNCHANGED << url, chart_type, text, processed_text, renormalized, stopwords,
                    tokens, words, word_counts, chart, rendered, page, stopfile,
                    cloud_file, runs, calls >>

\* chart = create_chart(kind, word_counts, top_n)
CreateChartCall ==
    /\ pc = "ranked"
    /\ \E kind \in Kinds :
          /\ chart_type' = kind
          /\ chart' = create_chart(kind, word_counts, top_n)
    /\ pc' = IF chart'.cls = "Raised" THEN "raised" ELSE "charted"
    /\ UNCHANGED << url, text, processed_text, renormalized, stopwords, tokens,
                    words, word_counts, top_n, top_words, rendered, page,
                    stopfile, cloud_file, runs, calls >>

\* render_pyechart(chart)
RenderCall ==
    /\ pc = "charted"
    /\ rendered' = rendered \o render_pyechart(chart)
    /\ pc' = "rendered"
    /\ UNCHANGED << url, chart_type, text, processed_text, renormalized, stopwords,
                    tokens, words, word_counts, top_n, top_words, chart, page,
                    stopfile, cloud_file, runs, calls >>

NextCount == SegmentAndCountCall \/ MostCommonCall \/ CreateChartCall \/ RenderCall

SpecCount == InitCount /\ [][NextCount]_vars

---------------------------------------------------------------------------
(* Spec: main, one script run per interaction *)

\* the page bodies fetch_text_from_url may return: nothing, "<a>" U+4E2D U+4E2D,
\* "a 1A a", and the scenario text
FetchSamples ==
    { << >>, << 60, 97, 62, 20013, 20013 >>, << 97, 32, 49, 65, 32, 97 >>, ScenarioText }

\* stopwords.txt: missing, empty, or the lines "a\n" and " on \n"
StopFiles ==
    { [exists |-> FALSE, lines |-> << >>],
      [exists |-> TRUE, lines |-> << >>],
      [exists |-> TRUE, lines |-> << << 97, 10 >>, << 32, 111, 110, 32, 10 >> >>] }

\* mutant: a missing file read as an empty one
OpenRaisesNever(file) == FALSE

\* open('stopwords.txt', 'r', encoding='utf-8') raises when the file is missing
OpenRaises(file) == ~file.exists

\* set(line.strip() for line in f)
ReadStopwords(file) == { Strip(l) : l \in Range(file.lines) }

\* f"{word}: {count}" for each of top_words
TopLines(top) == [i \in 1..Len(top) |-> [word |-> top[i][1], count |-> top[i][2]]]

Init ==
    /\ pc = "idle"
    /\ stopfile \in StopFiles
    /\ url = ""
    /\ chart_type = "cloud"
    /\ text = << >>
    /\ processed_text = << >>
    /\ renormalized = << >>
    /\ stopwords = {}
    /\ tokens = << >>
    /\ words = << >>
    /\ word_counts = << >>
    /\ top_n = DefaultTopN
    /\ top_words = << >>
    /\ chart = None
    /\ rendered = << >>
    /\ page = << >>
    /\ cloud_file = << >>
    /\ runs = 0
    /\ calls = << >>

\* a run starts with nothing bound and an empty page
StartRun(u, kind, next) ==
    /\ pc = "idle"
    /\ url' = u
    /\ chart_type' = kind
    /\ pc' = next
    /\ UNCHANGED << text, processed_text, renormalized, stopwords, tokens, words,
                    word_counts, top_n, top_words, chart, rendered, stopfile,
                    cloud_file, runs, calls >>

\* lines 158-159: no URL, the warning and nothing else
RunEmptyUrl ==
    /\ \E kind \in SelectOptions : StartRun("", kind, "done")
    /\ page' = << "warning" >>

\* line 160: a URL, the button not pressed
RunNoSubmit ==
    /\ \E kind \in SelectOptions : StartRun("u", kind, "done")
    /\ page' = << >>

\* line 160: a URL and the button pressed
Submit ==
    /\ \E kind \in SelectOptions : StartRun("u", kind, "fetch")
    /\ page' = << >>

\* line 162: text = fetch_text_from_url(url)
Fetch ==
    /\ pc = "fetch"
    /\ \E body \in FetchSamples : text' = body
    /\ calls' = Append(calls, "fetch_text_from_url")
    /\ pc' = "preprocess"
    /\ UNCHANGED << url, chart_type, processed_text, renormalized, stopwords, tokens,
                    words, word_counts, top_n, top_words, chart, rendered, page,
                    stopfile, cloud_file, runs >>

\* line 162: requests.get or raise_for_status raises
FetchFails ==
    /\ pc = "fetch"
    /\ calls' = Append(calls, "fetch_text_from_url")
    /\ pc' = "failed_fetch"
    /\ UNCHANGED << url, chart_type, text, processed_text, renormalized, stopwords,
                    tokens, words, word_counts, top_n, top_words, chart, rendered,
                    page, stopfile, cloud_file, runs >>

\* line 163: processed_text = preprocess_text(text)
Preprocess ==
    /\ pc = "preprocess"
    /\ processed_text' = preprocess_text(text)
    /\ calls' = Append(calls, "preprocess_text")
    /\ pc' = "load"
    /\ UNCHANGED << url, chart_type, text, renormalized, stopwords, tokens, words,
                    word_counts, top_n, top_words, chart, rendered, page,
                    stopfile, cloud_file, runs >>

\* lines 166-167: the stopword file is opened and read, or open raises and
\* the run ends there
LoadStopwords ==
    /\ pc = "load"
    /\ IF OpenRaises(stopfile)
       THEN pc' = "failed_config" /\ UNCHANGED stopwords
       ELSE pc' = "segment" /\ stopwords' = ReadStopwords(stopfile)
    /\ calls' = Append(calls, "open")
    /\ UNCHANGED << url, chart_type, text, processed_text, renormalized, tokens,
                    words, word_counts, top_n, top_words, chart, rendered, page,
                    stopfile, cloud_file, runs >>

\* line 169: word_counts = segment_and_count(processed_text, stopwords)
SegmentAndCount ==
    /\ pc = "segment"
    /\ \E toks \in Cuts(processed_text) :
          /\ tokens' = toks
          /\ words' = FilterWords(toks, stopwords)
          /\ word_counts' = Counter(FilterWords(toks, stopwords))
    /\ calls' = Append(calls, "segment_and_count")
    /\ pc' = "cloud"
    /\ UNCHANGED << url, chart_type, text, processed_text, renormalized, stopwords,
                    top_n, top_words, chart, rendered, page, stopfile,
                    cloud_file, runs >>

\* line 170: draw_word_cloud(word_counts) renders every pair into the file
DrawWordCloud ==
    /\ pc = "cloud"
    /\ cloud_file' = word_counts
    /\ calls' = Append(calls, "draw_word_cloud")
    /\ pc' = "top"
    /\ UNCHANGED << url, chart_type, text, processed_text, renormalized, stopwords,
                    tokens, words, word_counts, top_n, top_words, chart, rendered,
                    page, stopfile, runs >>

\* lines 172-175: the heading and the 20 most common words
ShowTop ==
    /\ pc = "top"
    /\ top_words' = most_common(word_counts, DefaultTopN)
    /\ page' = page \o << "heading" >> \o TopLines(most_common(word_counts, DefaultTopN))
    /\ calls' = Append(calls, "most_common")
    /\ pc' = "show"
    /\ UNCHANGED << url, chart_type, text, processed_text, renormalized, stopwords,
                    tokens, words, word_counts, top_n, chart, rendered, stopfile,
                    cloud_file, runs >>

\* lines 177-178: the cloud kind embeds the file just written
ShowCloud ==
    /\ pc = "show"
    /\ chart_type = "cloud"
    /\ rendered' = Append(rendered, [cls |-> "Html", data |-> cloud_file])
    /\ pc' = "done"
    /\ UNCHANGED << url, chart_type, text, processed_text, renormalized, stopwords,
                    tokens, words, word_counts, top_n, top_words, chart, page,
                    stopfile, cloud_file, runs, calls >>

\* lines 179-181: chart = create_chart(chart_type, word_counts);
\* render_pyechart(chart)
ShowChart ==
    /\ pc = "show"
    /\ chart_type # "cloud"
    /\ chart' = create_chart(chart_type, word_counts, DefaultTopN)
    /\ IF chart'.cls = "Raised"
       THEN /\ pc' = "failed_chart"
            /\ calls' = Append(calls, "create_chart")
            /\ UNCHANGED rendered
       ELSE /\ pc' = "done"
            /\ calls' = calls \o << "create_chart", "render_pyechart" >>
            /\ rendered' = rendered \o render_pyechart(chart')
    /\ UNCHANGED << url, chart_type, text, processed_text, renormalized, stopwords,
                    tokens, words, word_counts, top_n, top_words, page, stopfile,
                    cloud_file, runs >>

\* the next interaction runs the script again from the top: the names of the
\* run are gone, the files stay, and stopwords.txt may have changed meanwhile
Rerun ==
    /\ pc \in { "done", "failed_fetch", "failed_config", "failed_chart" }
    /\ runs < MaxRuns
    /\ runs' = runs + 1
    /\ pc' = "idle"
    /\ stopfile' \in StopFiles
    /\ url' = ""
    /\ text' = << >>
    /\ processed_text' = << >>
    /\ stopwords' = {}
    /\ tokens' = << >>
    /\ words' = << >>
    /\ word_counts' = << >>
    /\ top_words' = << >>
    /\ chart' = None
    /\ rendered' = << >>
    /\ page' = << >>
    /\ calls' = << >>
    /\ UNCHANGED << chart_type, renormalized, top_n, cloud_file >>

Next ==
    \/ RunEmptyUrl
    \/ RunNoSubmit
    \/ Submit
    \/ Fetch
    \/ FetchFails
    \/ Preprocess
    \/ LoadStopwords
    \/ SegmentAndCount
    \/ DrawWordCloud
    \/ ShowTop
    \/ ShowCloud
    \/ ShowChart
    \/ Rerun

Spec == Init /\ [][Next]_vars

---------------------------------------------------------------------------
(* Properties of preprocess_text (SpecNorm) *)

Normalized == pc \in { "normalized", "renormalized" }

\* position k of s lies strictly between a '<' and the next '>' after it
InsideBracketPair(s, k) ==
    \E i \in 1..(k - 1) : \E j \in (k + 1)..Len(s) :
        /\ s[i] = 60
        /\ s[j] = 62
        /\ \A m \in (i + 1)..(j - 1) : s[m] # 62

\* as InsideBracketPair, with no line break between the two brackets
InsideBracketPairOnOneLine(s, k) ==
    \E i \in 1..(k - 1) : \E j \in (k + 1)..Len(s) :
        /\ s[i] = 60
        /\ s[j] = 62
        /\ \A m \in (i + 1)..(j - 1) : s[m] # 62 /\ s[m] # 10

\* C4: a letter whose every occurrence in the raw text stands inside a
\* '<' ... next '>' pair, whatever else the pair holds, does not appear in the
\* normalized output.
C4_TagsRemovedWhole ==
    Normalized =>
        \A c \in Range(text) :
            (\A k \in 1..Len(text) : text[k] = c => InsideBracketPair(text, k))
                => c \notin Range(processed_text)

\* What does hold of line 30: the same, for pairs with no line break inside.
TagsRemovedOnOneLine ==
    Normalized =>
        \A c \in Range(text) :
            (\A k \in 1..Len(text) : text[k] = c => InsideBracketPairOnOneLine(text, k))
                => c \notin Range(processed_text)

\* a tag holding a letter and another '<' was removed, and a letter outside kept
TagsRemovedWitness ==
    /\ pc = "normalized"
    /\ \E k \in 1..Len(text) : text[k] = 97 /\ InsideBracketPairOnOneLine(text, k)
    /\ processed_text = << 20013 >>

\* C5: the output of preprocess_text holds only ideographs U+4E00..U+9FFF,
\* ASCII letters and single spaces: no two adjacent spaces, no leading or
\* trailing space; the empty input gives the empty output.
C5_OutputAlphabet ==
    Normalized =>
        /\ \A i \in 1..Len(processed_text) :
              \/ processed_text[i] \in 19968..40959
              \/ processed_text[i] \in 65..90
              \/ processed_text[i] \in 97..122
              \/ processed_text[i] = 32
        /\ \A i \in 1..(Len(processed_text) - 1) :
              ~(processed_text[i] = 32 /\ processed_text[i + 1] = 32)
        /\ processed_text # << >> =>
              processed_text[1] # 32 /\ processed_text[Len(processed_text)] # 32
        /\ text = << >> => processed_text = << >>

\* a digit, a line break and a space between two letters became one space
C5_Witness ==
    /\ pc = "normalized"
    /\ \E i \in 1..(Len(text) - 2) :
          text[i] = 49 /\ text[i + 1] = 10 /\ text[i + 2] = 32
    /\ processed_text = << 97, 32, 20013 >>

\* C6: preprocess_text is idempotent: applied to its own output it returns
\* that output.
C6_Idempotent == pc = "renormalized" => renormalized = processed_text

\* the first application changed the text and left something
C6_Witness ==
    /\ pc = "renormalized"
    /\ processed_text # text
    /\ Len(processed_text) >= 3
    /\ 32 \in Range(processed_text)

---------------------------------------------------------------------------
(* Properties of segment_and_count and the top-N query (SpecCount) *)

Counted == pc \in { "counted", "ranked", "charted", "raised", "rendered" }

Ranked == pc \in { "ranked", "charted", "raised", "rendered" }

\* the positions of the tokens that are not blank and not stopwords
KeptPositions ==
    { i \in 1..Len(tokens) :
        /\ \E j \in 1..Len(tokens[i]) : ~IsSpace(tokens[i][j])
        /\ tokens[i] \notin stopwords }

\* the k-th smallest member of a set of positions
KthOf(S, k) == CHOOSE i \in S : Cardinality({ j \in S : j <= i }) = k

\* C2: the sequence segment_and_count counts is the subsequence of the
\* tokenizer output, in order and with duplicates, of the tokens that are not
\* blank and not in the stopword set (exact match); so it is no longer than the
\* input and holds no stopword and no blank token.
C2_FilterIsSubsequence ==
    Counted =>
        /\ Len(words) = Cardinality(KeptPositions)
        /\ \A k \in 1..Len(words) : words[k] = tokens[KthOf(KeptPositions, k)]
        /\ Len(words) <= Len(tokens)
        /\ \A k \in 1..Len(words) :
              /\ words[k] \notin stopwords
              /\ \E j \in 1..Len(words[k]) : ~IsSpace(words[k][j])

\* 'a' is a stopword and was dropped with the blank token, 'A' was kept
C2_Witness ==
    /\ pc = "counted"
    /\ << 97 >> \in stopwords
    /\ << 97 >> \in Range(tokens)
    /\ << 32 >> \in Range(tokens)
    /\ words = << << 65 >> >>

Occurrences(ws, w) == Cardinality({ i \in 1..Len(ws) : ws[i] = w })

RECURSIVE SumCounts(_)
SumCounts(items) ==
    IF items = << >> THEN 0 ELSE items[1][2] + SumCounts(Tail(items))

\* C3: the table maps each distinct token of the filtered sequence to its
\* number of occurrences there, a positive integer, each token once; so the
\* counts add up to the length of the filtered sequence.
C3_CountsAreOccurrences ==
    Counted =>
        /\ \A i \in 1..Len(word_counts) :
              /\ word_counts[i][2] = Occurrences(words, word_counts[i][1])
              /\ word_counts[i][2] >= 1
        /\ \A i, j \in 1..Len(word_counts) :
              word_counts[i][1] = word_counts[j][1] => i = j
        /\ \A w \in Range(words) : \E i \in 1..Len(word_counts) : word_counts[i][1] = w
        /\ SumCounts(word_counts) = Len(words)

\* a table with a token counted three times and another counted once
C3_Witness ==
    /\ pc = "counted"
    /\ Len(word_counts) = 2
    /\ \E i \in 1..2 : word_counts[i][2] = 3
    /\ Len(words) = 4

\* position of the first occurrence of w in the filtered sequence
FirstOccurrence(w) ==
    CHOOSE i \in 1..Len(words) : words[i] = w /\ \A j \in 1..(i - 1) : words[j] # w

\* the ranking: count descending, ties by first occurrence
RankedBefore(v, w) ==
    \/ Occurrences(words, v) > Occurrences(words, w)
    \/ /\ Occurrences(words, v) = Occurrences(words, w)
       /\ FirstOccurrence(v) < FirstOccurrence(w)

Min2(a, b) == IF a < b THEN a ELSE b

TopKeys == { top_words[i][1] : i \in 1..Len(top_words) }

ScenarioTop == << << W_cat, 2 >>, << W_sat, 1 >>, << W_mat, 1 >> >>

\* C1: most_common(n) returns the first min(max(n, 0), number of distinct
\* tokens) entries of the ranking 'count descending, ties by first occurrence
\* in the filtered sequence'; nothing for n <= 0 or an empty table; and the
\* scenario text with stopwords {the, on} and n = 3 gives cat 2, sat 1, mat 1.
C1_TopNIsRankingPrefix ==
    Ranked =>
        /\ Len(top_words) =
              Min2(IF top_n > 0 THEN top_n ELSE 0, Cardinality(Range(words)))
        /\ \A i \in 1..Len(top_words) :
              /\ top_words[i][1] \in Range(words)
              /\ top_words[i][2] = Occurrences(words, top_words[i][1])
        /\ \A i, j \in 1..Len(top_words) :
              i < j => RankedBefore(top_words[i][1], top_words[j][1])
        /\ \A w \in Range(words) \ TopKeys :
              \A i \in 1..Len(top_words) : RankedBefore(top_words[i][1], w)
        /\ (top_n <= 0 \/ words = << >>) => top_words = << >>
        /\ (processed_text = ScenarioText /\ stopwords = { W_the, W_on } /\ top_n = 3)
              => top_words = ScenarioTop

\* the scenario: sat before mat, ran cut off
C1_Witness ==
    /\ pc = "ranked"
    /\ processed_text = ScenarioText
    /\ stopwords = { W_the, W_on }
    /\ words = << W_cat, W_sat, W_mat, W_cat, W_ran >>
    /\ top_n = 3
    /\ top_words = ScenarioTop

---------------------------------------------------------------------------
(* Properties of create_chart and render_pyechart (SpecCount) *)

Charted == pc \in { "charted", "raised", "rendered" }

AxisKinds == { "bar_vertical", "bar_horizontal", "line", "scatter", "area" }

\* C7: for a kind create_chart has no branch for (the cloud kind, an unknown
\* string) it returns None and does not raise, render_pyechart embeds nothing,
\* and the table and the top list stay as computed.
C7_UnhandledKindGivesNone ==
    (Charted /\ chart_type \notin HandledKinds) =>
        /\ pc # "raised"
        /\ chart = None
        /\ rendered = << >>
        /\ word_counts = Counter(words)
        /\ top_words = most_common(word_counts, top_n)

C7_Witness ==
    /\ pc = "rendered"
    /\ chart_type = "unknown"
    /\ Len(word_counts) >= 2
    /\ top_n = DefaultTopN
    /\ Len(top_words) >= 2
    /\ rendered = << >>

\* C8: for the vertical bar, horizontal bar, line, scatter and area kinds the
\* labels are the tokens of the top-N entries in ranked order and the values
\* their counts at the same positions, of equal length (empty for an empty
\* table); the horizontal bar only swaps the axes.
C8_AxisSeriesAligned ==
    (Charted /\ chart_type \in AxisKinds) =>
        /\ pc # "raised"
        /\ Len(chart.xaxis) = Len(top_words)
        /\ Len(chart.yaxis) = Len(top_words)
        /\ \A i \in 1..Len(top_words) :
              chart.xaxis[i] = top_words[i][1] /\ chart.yaxis[i] = top_words[i][2]
        /\ word_counts = << >> => chart.xaxis = << >> /\ chart.yaxis = << >>
        /\ chart.reversal_axis = (chart_type = "bar_horizontal")

\* a horizontal bar chart of two entries, the second of the table ranked first
C8_Witness ==
    /\ pc = "charted"
    /\ chart_type = "bar_horizontal"
    /\ Len(chart.xaxis) = 2
    /\ chart.yaxis[1] > chart.yaxis[2]
    /\ word_counts[1][2] < word_counts[2][2]

\* C9: for the radar kind create_chart completes for every table, the empty
\* one included, with one indicator per selected entry in ranked order, each
\* with the largest selected count as its maximum, and exactly one data vector
\* of the counts in that order.
C9_RadarSchema ==
    (Charted /\ chart_type = "radar") =>
        /\ pc # "raised"
        /\ chart.cls = "Radar"
        /\ Len(chart.schema) = Len(top_words)
        /\ \A i \in 1..Len(top_words) :
              /\ chart.schema[i].name = top_words[i][1]
              /\ \A j \in 1..Len(top_words) : top_words[j][2] <= chart.schema[i].max_
              /\ \E j \in 1..Len(top_words) : top_words[j][2] = chart.schema[i].max_
        /\ Len(chart.data) = 1
        /\ Len(chart.data[1]) = Len(top_words)
        /\ \A i \in 1..Len(top_words) : chart.data[1][i] = top_words[i][2]

\* the radar chart of the empty table
C9_Witness ==
    /\ pc = "charted"
    /\ chart_type = "radar"
    /\ word_counts = << >>
    /\ top_n = DefaultTopN
    /\ chart.schema = << >>
    /\ chart.data = << << >> >>

\* a radar chart of two entries with different counts
RadarTwoEntries ==
    /\ pc = "charted"
    /\ chart_type = "radar"
    /\ Len(chart.schema) = 2
    /\ chart.data[1][1] > chart.data[1][2]

---------------------------------------------------------------------------
(* Properties of main (Spec) *)

\* what comes after the stopword file is opened
AfterLoad ==
    { "segment_and_count", "draw_word_cloud", "most_common", "create_chart",
      "render_pyechart" }

\* C10: in a run whose stopword file cannot be opened, the run ends at the
\* open: segment_and_count is never called in it, and it produces no table, no
\* word-cloud file, no top-20 listing and no chart.
C10_ConfigErrorAbortsBeforeTokenizing ==
    /\ ~stopfile.exists =>
          /\ Range(calls) \cap AfterLoad = {}
          /\ tokens = << >> /\ words = << >> /\ word_counts = << >>
          /\ top_words = << >> /\ chart = None /\ rendered = << >>
          /\ \A i \in 1..Len(page) : page[i] = "warning"
          /\ pc \notin { "segment", "cloud", "top", "show", "failed_chart" }
    /\ pc = "failed_config" =>
          /\ ~stopfile.exists
          /\ calls = << "fetch_text_from_url", "preprocess_text", "open" >>

\* a run aborted at the open, after an earlier run that went through and left
\* its word-cloud file behind
C10_Witness ==
    /\ pc = "failed_config"
    /\ runs = 1
    /\ processed_text = ScenarioText
    /\ cloud_file # << >>

\* word-cloud file untouched by a run that aborts at the open
CloudFileKeptOnAbort ==
    [][pc' = "failed_config" => cloud_file' = cloud_file]_vars

=============================================================================
